---------------------------- MODULE Spec2Model ----------------------------
(***************************************************************************)
(* The governance / token event handlers of the ENS governor mapping       *)
(* (src/unnamed/part_000) as a state machine over the entity store.        *)
(*                                                                         *)
(* Each handler is one action: it loads its entities, computes the new     *)
(* field values and saves them, all in one step, as the host runs one      *)
(* handler to completion per event.  An entity store is a function from    *)
(* the ids of the saved entities to their records; save is an upsert.      *)
(*                                                                         *)
(* The helpers imported from ./helpers (getGovernance, getDelegate,         *)
(* getProposal, getTokenHolder, getVoteChoiceByValue) and the entity       *)
(* classes of ../generated/schema are modelled as the specification        *)
(* describes them: get-or-create, and new entities with zero-valued        *)
(* defaults in every field.                                                *)
(*                                                                         *)
(* Left out: the derived decimal twins of the raw integers (tokenBalance,  *)
(* delegatedVotes, totalTokensHeld), block timestamps (they travel with    *)
(* the block number) and the payload of a proposal (targets, values,       *)
(* signatures, calldatas, description, endBlock), which the handlers copy  *)
(* from the event and never read.                                          *)
(***************************************************************************)
EXTENDS Integers, Sequences, FiniteSets, TLC

\* ------------------------------------------------------------------ bounds

\* Events handled in one run of the proposal lifecycle specification.
MaxEvents == 4
\* Events handled in one run of the token and the delegation specifications.
MaxTransfers == 3
\* Events handled in one run of the voting specification.
MaxVoteEvents == 3
\* Largest value of a Transfer and largest balance of a DelegateVotesChanged.
MaxValue == 2

\* --------------------------------------------------------------- constants

BIGINT_ZERO == 0
BIGINT_ONE == 1
ZERO_ADDRESS == 0
\* A reference or number that is not set (null in the source).
NULL == -1

BIGINT_NEG_ONE == -1

PROPOSAL_STATE_PENDING == "PENDING"
PROPOSAL_STATE_ACTIVE == "ACTIVE"
PROPOSAL_STATE_CANCELED == "CANCELED"
PROPOSAL_STATE_QUEUED == "QUEUED"
PROPOSAL_STATE_EXECUTED == "EXECUTED"
\* The state of a Proposal entity on which no handler has set one yet.
PROPOSAL_STATE_UNSET == "UNSET"

\* ------------------------------------------------------------ input domains

\* Account addresses: the zero address and two others.
Addresses == {ZERO_ADDRESS, 1, 2}
\* Accounts that propose and vote.
Participants == Addresses \ {ZERO_ADDRESS}
ProposalIds == {1, 2}
TransferValues == 0 .. MaxValue
VoteBalances == 0 .. MaxValue
StartBlocks == {2, MaxEvents + 1}
Etas == {1}
\* uint8 support codes: the three the governor defines and one it does not.
SupportCodes == {0, 1, 2, 7}
Weights == {1, 2}
Reasons == {"r"}

QuorumNumerators == {4, 5}

VARIABLES
    tokenHolders,   \* TokenHolder entities of the store, by id
    delegates,      \* Delegate entities of the store, by id
    proposals,      \* Proposal entities of the store, by id
    votes,          \* Vote entities of the store, by id
    governance,     \* the Governance singleton
    logged,         \* what the last handler wrote with log.error
    aborted,        \* a handler trapped: the host stops indexing
    event,          \* the event the last handler was run for
    nEvents,        \* events handled so far
    minted,         \* sum of the values of the Transfer events from the zero address
    overdrawn,      \* some Transfer left its sender with a negative balance
    history,        \* per proposal id, the kinds of the events handled for it
    attributed,     \* per proposal id, what its events added to proposalsQueued / proposalsExecuted
    votingPower,    \* per delegate, the newBalance of its last DelegateVotesChanged event
    handler,        \* where a handler that is run save by save stands, and its local objects
    staking,        \* per pool, the calls of the staking handlers to handleReward
    staked          \* per pool, the amounts of its Deposit, Withdraw and EmergencyWithdraw events

vars == <<tokenHolders, delegates, proposals, votes, governance, logged, aborted,
          event, nEvents, minted, overdrawn, history, attributed, votingPower,
          handler, staking, staked>>

\* ------------------------------------------------------------ entity store

EmptyStore == [id \in {} |-> id]

\* entity.save(): upsert of the entity under its id.
Save(store, entity) ==
    [id \in DOMAIN store \cup {entity.id} |-> IF id = entity.id THEN entity ELSE store[id]]

\* What load returns when the store has no entity of that id.
NullEntity == [id |-> NULL]

\* new TokenHolder(id) / new Delegate(id) / new Proposal(id): every field at its default.
NewTokenHolder(id) ==
    [id |-> id, tokenBalanceRaw |-> BIGINT_ZERO, totalTokensHeldRaw |-> BIGINT_ZERO,
     delegate |-> NULL]

NewDelegate(id) ==
    [id |-> id, delegatedVotesRaw |-> BIGINT_ZERO, tokenHoldersRepresentedAmount |-> 0,
     numberVotes |-> 0]

NewProposal(id) ==
    [id |-> id, proposer |-> NULL, startBlock |-> NULL, creationBlock |-> NULL,
     state |-> PROPOSAL_STATE_UNSET, executionETA |-> NULL, executionBlock |-> NULL,
     cancellationBlock |-> NULL,
     againstVotes |-> BIGINT_ZERO, forVotes |-> BIGINT_ZERO, abstainVotes |-> BIGINT_ZERO]

NewGovernance ==
    [proposals |-> BIGINT_ZERO, proposalsCanceled |-> BIGINT_ZERO,
     proposalsQueued |-> BIGINT_ZERO, proposalsExecuted |-> BIGINT_ZERO,
     currentDelegates |-> BIGINT_ZERO, currentTokenHolders |-> BIGINT_ZERO,
     delegatedVotesRaw |-> BIGINT_ZERO, quorumNumerator |-> BIGINT_ZERO]

\* Get-or-create: the stored entity, or a new one with default field values.
getTokenHolder(id) ==
    IF id \in DOMAIN tokenHolders THEN tokenHolders[id] ELSE NewTokenHolder(id)

getDelegate(id) ==
    IF id \in DOMAIN delegates THEN delegates[id] ELSE NewDelegate(id)

getProposal(id) ==
    IF id \in DOMAIN proposals THEN proposals[id] ELSE NewProposal(id)

getGovernance == governance

\* event.block.number: the host delivers one event per block.
BlockNumber == nEvents + 1

\* Staking pools of the MasterChef contract.
PoolIds == {0, 1}
StakeAmounts == 1 .. MaxValue

\* No handler is in the middle of its saves.
Idle == [pc |-> "idle"]

\* handleReward not called yet: per pool, the sum, the number and the last of the
\* deltas passed to it.
NoStaking == [p \in PoolIds |-> [delta |-> 0, calls |-> 0, last |-> 0]]

\* No staking event yet: per pool, the number of its events and the sums of their
\* amounts by kind.
NoStakes ==
    [p \in PoolIds |-> [events |-> 0, deposited |-> 0, withdrawn |-> 0, emergency |-> 0]]

\* ------------------------------------------------------------------- Init

Init ==
    /\ tokenHolders = EmptyStore
    /\ delegates = EmptyStore
    /\ proposals = EmptyStore
    /\ votes = EmptyStore
    /\ governance = NewGovernance
    /\ logged = <<>>
    /\ aborted = FALSE
    /\ event = [kind |-> "none"]
    /\ nEvents = 0
    /\ minted = 0
    /\ overdrawn = FALSE
    /\ history = [p \in ProposalIds |-> <<>>]
    /\ attributed = [p \in ProposalIds |-> [queued |-> 0, executed |-> 0]]
    /\ votingPower = [d \in Addresses |-> 0]
    /\ handler = Idle
    /\ staking = NoStaking
    /\ staked = NoStakes

\* The bookkeeping of an event of the governor or the token that its handler has
\* handled in one piece: the staking ledger is another contract's.
Handled(ev) ==
    /\ handler = Idle
    /\ event' = ev
    /\ nEvents' = nEvents + 1
    /\ UNCHANGED <<handler, staking, staked>>

\* ------------------------------------------------------------ handleTransfer

\* A debit that stops at zero.
DebitHolderClamped(fromHolder, value) ==
    [fromHolder EXCEPT !.tokenBalanceRaw = IF @ < value THEN BIGINT_ZERO ELSE @ - value]

\* The sender's entity after the debit.
DebitHolder(fromHolder, value) ==
    [fromHolder EXCEPT !.tokenBalanceRaw = @ - value]

\* The recipient's entity after the credit.
CreditHolder(toHolder, value) ==
    [toHolder EXCEPT !.tokenBalanceRaw = @ + value,
                     !.totalTokensHeldRaw = @ + value]

\* governance.currentTokenHolders after a holder's balance went from previous to current.
HolderCount(count, previous, current) ==
    IF current = BIGINT_ZERO /\ previous > BIGINT_ZERO THEN count - BIGINT_ONE
    ELSE IF current > BIGINT_ZERO /\ previous = BIGINT_ZERO THEN count + BIGINT_ONE
    ELSE count

handleTransfer(from, to, value) ==
    LET fromHolder == getTokenHolder(from)
        toHolder == getTokenHolder(to)
        gov == getGovernance
        debit == from # ZERO_ADDRESS
        fromAfter == DebitHolder(fromHolder, value)
        countAfterFrom ==
            IF debit
            THEN HolderCount(gov.currentTokenHolders, fromHolder.tokenBalanceRaw,
                             fromAfter.tokenBalanceRaw)
            ELSE gov.currentTokenHolders
        storeAfterFrom == IF debit THEN Save(tokenHolders, fromAfter) ELSE tokenHolders
        negative == debit /\ fromAfter.tokenBalanceRaw < BIGINT_ZERO
        toAfter == CreditHolder(toHolder, value)
        countAfterTo ==
            HolderCount(countAfterFrom, toHolder.tokenBalanceRaw, toAfter.tokenBalanceRaw)
    IN  /\ ~aborted
        /\ tokenHolders' = Save(storeAfterFrom, toAfter)
        /\ governance' = [gov EXCEPT !.currentTokenHolders = countAfterTo]
        /\ logged' = IF negative THEN <<"NegativeBalance">> ELSE <<>>
        /\ minted' = IF debit THEN minted ELSE minted + value
        /\ overdrawn' = (overdrawn \/ negative)
        /\ Handled([kind |-> "Transfer", from |-> from, to |-> to, value |-> value])
        /\ UNCHANGED <<delegates, proposals, votes, aborted, history, attributed, votingPower>>

Transfer ==
    \E from \in Addresses, to \in Addresses, value \in TransferValues :
        handleTransfer(from, to, value)

NextToken == nEvents < MaxTransfers /\ Transfer

SpecToken == Init /\ [][NextToken]_vars

\* ------------------------------------------------ handleDelegateVotesChanged

\* The Delegate the handler saves: a new entity that carries the new balance.
VotedDelegate(delegateAddress, newBalance) ==
    [NewDelegate(delegateAddress) EXCEPT !.delegatedVotesRaw = newBalance]

\* governance.currentDelegates after the two tests of the handler.
DelegateCount(count, previousBalance, newBalance) ==
    LET entered ==
            IF previousBalance = BIGINT_ZERO /\ newBalance > BIGINT_ZERO
            THEN count + BIGINT_ONE
            ELSE count
    IN  IF newBalance = BIGINT_ZERO THEN entered - BIGINT_ONE ELSE entered

handleDelegateVotesChanged(delegateAddress, previousBalance, newBalance) ==
    LET votesDifference == newBalance - previousBalance
        delegate == VotedDelegate(delegateAddress, newBalance)
        gov == getGovernance
    IN  /\ ~aborted
        /\ delegates' = Save(delegates, delegate)
        /\ governance' =
               [gov EXCEPT !.currentDelegates =
                               DelegateCount(@, previousBalance, newBalance),
                           !.delegatedVotesRaw = @ + votesDifference]
        /\ logged' = <<>>
        /\ Handled([kind |-> "DelegateVotesChanged", delegate |-> delegateAddress,
                    previousBalance |-> previousBalance, newBalance |-> newBalance])
        /\ votingPower' = [votingPower EXCEPT ![delegateAddress] = newBalance]
        /\ UNCHANGED <<tokenHolders, proposals, votes, aborted, minted, overdrawn,
                       history, attributed>>

DelegateVotesChanged ==
    \E delegateAddress \in Participants, previousBalance \in VoteBalances,
       newBalance \in VoteBalances :
        handleDelegateVotesChanged(delegateAddress, previousBalance, newBalance)

NextDelegates == nEvents < MaxTransfers /\ DelegateVotesChanged

SpecDelegates == Init /\ [][NextDelegates]_vars

\* ------------------------------------------------- proposal event handlers

\* The bookkeeping of a handled event of proposal p, after governance' is set:
\* the event joins p's history and its change of the two counters is put down to p.
HandledFor(p, ev) ==
    /\ Handled(ev)
    /\ history' = [history EXCEPT ![p] = Append(@, ev.kind)]
    /\ attributed' =
           [attributed EXCEPT
               ![p].queued = @ + (governance'.proposalsQueued - governance.proposalsQueued),
               ![p].executed =
                   @ + (governance'.proposalsExecuted - governance.proposalsExecuted)]

\* A creation that is active only after the start block.
CreatedProposalAfterStart(proposal, proposer, startBlock, blockNumber) ==
    [proposal EXCEPT
        !.proposer = proposer.id,
        !.creationBlock = blockNumber,
        !.startBlock = startBlock,
        !.state = IF blockNumber > startBlock
                  THEN PROPOSAL_STATE_ACTIVE
                  ELSE PROPOSAL_STATE_PENDING]

\* The proposal entity handleProposalCreated saves.
CreatedProposal(proposal, proposer, startBlock, blockNumber) ==
    [proposal EXCEPT
        !.proposer = proposer.id,
        !.creationBlock = blockNumber,
        !.startBlock = startBlock,
        !.state = IF blockNumber >= startBlock
                  THEN PROPOSAL_STATE_ACTIVE
                  ELSE PROPOSAL_STATE_PENDING]

handleProposalCreated(proposalId, proposerAddress, startBlock) ==
    LET proposal == getProposal(proposalId)
        proposer == getDelegate(proposerAddress)
        gov == getGovernance
        ev == [kind |-> "ProposalCreated", proposalId |-> proposalId,
               proposer |-> proposerAddress, startBlock |-> startBlock]
    IN  /\ ~aborted
        /\ IF proposer = NullEntity
           THEN \* log.error, then proposer.id dereferences null: the handler traps
                /\ logged' = <<"DelegateNotFound">>
                /\ aborted' = TRUE
                /\ UNCHANGED <<proposals, governance>>
           ELSE /\ logged' = <<>>
                /\ aborted' = FALSE
                /\ proposals' =
                       Save(proposals,
                            CreatedProposal(proposal, proposer, startBlock, BlockNumber))
                /\ governance' = [gov EXCEPT !.proposals = @ + BIGINT_ONE]
        /\ HandledFor(proposalId, ev)
        /\ UNCHANGED <<tokenHolders, delegates, votes, minted, overdrawn, votingPower>>

\* The proposal entity handleProposalCanceled saves.
CanceledProposal(proposal, blockNumber) ==
    [proposal EXCEPT !.state = PROPOSAL_STATE_CANCELED,
                     !.cancellationBlock = blockNumber]

handleProposalCanceled(proposalId) ==
    LET proposal == getProposal(proposalId)
        gov == getGovernance
    IN  /\ ~aborted
        /\ proposals' = Save(proposals, CanceledProposal(proposal, BlockNumber))
        /\ governance' = [gov EXCEPT !.proposalsCanceled = @ + BIGINT_ONE]
        /\ logged' = <<>>
        /\ HandledFor(proposalId, [kind |-> "ProposalCanceled", proposalId |-> proposalId])
        /\ UNCHANGED <<tokenHolders, delegates, votes, aborted, minted, overdrawn, votingPower>>

\* An execution that is applied to queued proposals only.
ExecutedProposalIfQueued(proposal, blockNumber) ==
    IF proposal.state = PROPOSAL_STATE_QUEUED
    THEN [proposal EXCEPT !.state = PROPOSAL_STATE_EXECUTED,
                          !.executionETA = NULL,
                          !.executionBlock = blockNumber]
    ELSE proposal

\* The proposal entity handleProposalExecuted saves.
ExecutedProposal(proposal, blockNumber) ==
    [proposal EXCEPT !.state = PROPOSAL_STATE_EXECUTED,
                     !.executionETA = NULL,
                     !.executionBlock = blockNumber]

\* An execution that leaves proposalsQueued as it is.
ExecutedCountsStillQueued(gov) ==
    [gov EXCEPT !.proposalsExecuted = @ + BIGINT_ONE]

\* The governance counters handleProposalExecuted saves.
ExecutedCounts(gov) ==
    [gov EXCEPT !.proposalsQueued = @ - BIGINT_ONE,
                !.proposalsExecuted = @ + BIGINT_ONE]

handleProposalExecuted(proposalId) ==
    LET proposal == getProposal(proposalId)
        gov == getGovernance
    IN  /\ ~aborted
        /\ proposals' = Save(proposals, ExecutedProposal(proposal, BlockNumber))
        /\ governance' = ExecutedCounts(gov)
        /\ logged' = <<>>
        /\ HandledFor(proposalId, [kind |-> "ProposalExecuted", proposalId |-> proposalId])
        /\ UNCHANGED <<tokenHolders, delegates, votes, aborted, minted, overdrawn, votingPower>>

\* The proposal entity handleProposalQueued saves.
QueuedProposal(proposal, eta) ==
    [proposal EXCEPT !.state = PROPOSAL_STATE_QUEUED,
                     !.executionETA = eta]

handleProposalQueued(proposalId, eta) ==
    LET proposal == getProposal(proposalId)
        gov == getGovernance
    IN  /\ ~aborted
        /\ proposals' = Save(proposals, QueuedProposal(proposal, eta))
        /\ governance' = [gov EXCEPT !.proposalsQueued = @ + BIGINT_ONE]
        /\ logged' = <<>>
        /\ HandledFor(proposalId,
                      [kind |-> "ProposalQueued", proposalId |-> proposalId, eta |-> eta])
        /\ UNCHANGED <<tokenHolders, delegates, votes, aborted, minted, overdrawn, votingPower>>

\* ----------------------------------------------- handleQuorumNumeratorUpdated

\* The Governance entity the handler saves: a new one that carries the numerator.
QuorumGovernance(newQuorumNumerator) ==
    [NewGovernance EXCEPT !.quorumNumerator = newQuorumNumerator]

handleQuorumNumeratorUpdated(newQuorumNumerator) ==
    /\ ~aborted
    /\ governance' = QuorumGovernance(newQuorumNumerator)
    /\ logged' = <<>>
    /\ Handled([kind |-> "QuorumNumeratorUpdated",
                newQuorumNumerator |-> newQuorumNumerator])
    /\ UNCHANGED <<tokenHolders, delegates, proposals, votes, aborted, minted, overdrawn,
                   history, attributed, votingPower>>

\* ------------------------------------------------------------ handleVoteCast

\* voterAddress.concat("-").concat(proposalId)
VoteId(voterAddress, proposalId) == <<voterAddress, "-", proposalId>>

\* The enum key of a support code; a code the enum does not have is kept as it is.
getVoteChoiceByValue(support) ==
    CASE support = 0 -> "AGAINST"
      [] support = 1 -> "FOR"
      [] support = 2 -> "ABSTAIN"
      [] OTHER -> ToString(support)

\* The Vote entity the handler saves.
CastVote(voterAddress, proposalId, support, weight, reason) ==
    [id |-> VoteId(voterAddress, proposalId), proposal |-> proposalId,
     voter |-> voterAddress, weight |-> weight, reason |-> reason,
     choice |-> getVoteChoiceByValue(support)]

\* A pending proposal becomes active with its first vote.
PromotedProposal(proposal) ==
    IF proposal.state = PROPOSAL_STATE_PENDING
    THEN [proposal EXCEPT !.state = PROPOSAL_STATE_ACTIVE]
    ELSE proposal

\* A count that takes every code but 0 and 1 for an abstention.
CountedVoteElseAbstain(proposal, support) ==
    IF support = 0 THEN [proposal EXCEPT !.againstVotes = @ + BIGINT_ONE]
    ELSE IF support = 1 THEN [proposal EXCEPT !.forVotes = @ + BIGINT_ONE]
    ELSE [proposal EXCEPT !.abstainVotes = @ + BIGINT_ONE]

\* A count with the codes of against and for exchanged.
CountedVoteExchanged(proposal, support) ==
    IF support = 1 THEN [proposal EXCEPT !.againstVotes = @ + BIGINT_ONE]
    ELSE IF support = 0 THEN [proposal EXCEPT !.forVotes = @ + BIGINT_ONE]
    ELSE IF support = 2 THEN [proposal EXCEPT !.abstainVotes = @ + BIGINT_ONE]
    ELSE proposal

\* The proposal with the tally of the support code incremented.
CountedVote(proposal, support) ==
    IF support = 0 THEN [proposal EXCEPT !.againstVotes = @ + BIGINT_ONE]
    ELSE IF support = 1 THEN [proposal EXCEPT !.forVotes = @ + BIGINT_ONE]
    ELSE IF support = 2 THEN [proposal EXCEPT !.abstainVotes = @ + BIGINT_ONE]
    ELSE proposal

\* A voter's Delegate that is loaded from the store before it is counted up.
VoterDelegateLoaded(voterAddress) ==
    [getDelegate(voterAddress) EXCEPT !.numberVotes = @ + 1]

\* The Delegate entity the handler saves for the voter: a new one, counted up once.
VoterDelegate(voterAddress) ==
    [NewDelegate(voterAddress) EXCEPT !.numberVotes = @ + 1]

handleVoteCast(voterAddress, proposalId, support, weight, reason) ==
    LET vote == CastVote(voterAddress, proposalId, support, weight, reason)
        proposal == getProposal(proposalId)
    IN  /\ ~aborted
        /\ votes' = Save(votes, vote)
        /\ proposals' = Save(proposals, CountedVote(PromotedProposal(proposal), support))
        /\ delegates' = Save(delegates, VoterDelegate(voterAddress))
        /\ logged' = <<>>
        /\ UNCHANGED governance
        /\ HandledFor(proposalId,
                      [kind |-> "VoteCast", voter |-> voterAddress,
                       proposalId |-> proposalId, support |-> support,
                       weight |-> weight, reason |-> reason])
        /\ UNCHANGED <<tokenHolders, aborted, minted, overdrawn, votingPower>>

\* ------------------------------------------------------------- the actions

ProposalCreated ==
    \E proposalId \in ProposalIds, proposer \in Participants, startBlock \in StartBlocks :
        handleProposalCreated(proposalId, proposer, startBlock)

ProposalCanceled == \E proposalId \in ProposalIds : handleProposalCanceled(proposalId)

ProposalExecuted == \E proposalId \in ProposalIds : handleProposalExecuted(proposalId)

ProposalQueued ==
    \E proposalId \in ProposalIds, eta \in Etas : handleProposalQueued(proposalId, eta)

VoteCast ==
    \E voter \in Participants, proposalId \in ProposalIds, support \in SupportCodes,
       weight \in Weights, reason \in Reasons :
        handleVoteCast(voter, proposalId, support, weight, reason)

\* A vote in favour with the smallest weight.
VoteCastFor ==
    \E voter \in Participants, proposalId \in ProposalIds, reason \in Reasons :
        handleVoteCast(voter, proposalId, 1, 1, reason)

\* The life of proposals, with votes in between.
NextLifecycle ==
    \/ nEvents < MaxEvents /\ ProposalCreated
    \/ nEvents < MaxEvents /\ ProposalQueued
    \/ nEvents < MaxEvents /\ ProposalExecuted
    \/ nEvents < MaxEvents /\ ProposalCanceled
    \/ nEvents < MaxEvents /\ VoteCastFor

SpecLifecycle == Init /\ [][NextLifecycle]_vars

\* Votes of every kind on proposals that are absent, pending, active or queued.
NextVote ==
    \/ nEvents < MaxVoteEvents /\ ProposalCreated
    \/ nEvents < MaxVoteEvents /\ ProposalQueued
    \/ nEvents < MaxVoteEvents /\ VoteCast

SpecVote == Init /\ [][NextVote]_vars

\* Every event in any order.
Next ==
    \/ nEvents < MaxVoteEvents /\ Transfer
    \/ nEvents < MaxVoteEvents /\ DelegateVotesChanged
    \/ nEvents < MaxVoteEvents /\ ProposalCreated
    \/ nEvents < MaxVoteEvents /\ ProposalQueued
    \/ nEvents < MaxVoteEvents /\ ProposalExecuted
    \/ nEvents < MaxVoteEvents /\ ProposalCanceled
    \/ nEvents < MaxVoteEvents /\ VoteCast

Spec == Init /\ [][Next]_vars

\* ----------------------------------------------------- handleDelegateChanged

\* The delegator's entity with its reference to the new delegate.
DelegatingHolder(tokenHolder, newDelegate) ==
    [tokenHolder EXCEPT !.delegate = newDelegate.id]

\* The previous delegate with one holder less.
LeftDelegate(previousDelegate) ==
    [previousDelegate EXCEPT !.tokenHoldersRepresentedAmount = @ - 1]

\* The new delegate with one holder more.
JoinedDelegate(newDelegate) ==
    [newDelegate EXCEPT !.tokenHoldersRepresentedAmount = @ + 1]

handleDelegateChanged(delegator, fromDelegate, toDelegate) ==
    LET tokenHolder == getTokenHolder(delegator)
        previousDelegate == getDelegate(fromDelegate)
        newDelegate == getDelegate(toDelegate)
    IN  /\ ~aborted
        /\ tokenHolders' = Save(tokenHolders, DelegatingHolder(tokenHolder, newDelegate))
        /\ delegates' =
               Save(Save(delegates, LeftDelegate(previousDelegate)),
                    JoinedDelegate(newDelegate))
        /\ logged' = <<>>
        /\ Handled([kind |-> "DelegateChanged", delegator |-> delegator,
                    fromDelegate |-> fromDelegate, toDelegate |-> toDelegate])
        /\ UNCHANGED <<proposals, votes, governance, aborted, minted, overdrawn,
                       history, attributed, votingPower>>

DelegateChanged ==
    \E delegator \in Participants, fromDelegate \in Addresses, toDelegate \in Addresses :
        handleDelegateChanged(delegator, fromDelegate, toDelegate)

\* A DelegateVotesChanged as the token emits it: previousBalance is the balance the
\* last such event of the delegate left, and newBalance differs from it.
DelegateVotesChangedInOrder ==
    \E delegateAddress \in Participants, newBalance \in VoteBalances :
        /\ newBalance # votingPower[delegateAddress]
        /\ handleDelegateVotesChanged(delegateAddress, votingPower[delegateAddress],
                                      newBalance)

\* Delegations, the voting power that follows them, and votes of the delegates.
NextDelegation ==
    \/ nEvents < MaxTransfers /\ DelegateChanged
    \/ nEvents < MaxTransfers /\ DelegateVotesChangedInOrder
    \/ nEvents < MaxTransfers /\ VoteCastFor

SpecDelegation == Init /\ [][NextDelegation]_vars

\* Voting power as the token reports it, and votes of the delegates.
NextVotingPower ==
    \/ nEvents < MaxEvents /\ DelegateVotesChangedInOrder
    \/ nEvents < MaxEvents /\ VoteCastFor

SpecVotingPower == Init /\ [][NextVotingPower]_vars

QuorumNumeratorUpdated ==
    \E newQuorumNumerator \in QuorumNumerators :
        handleQuorumNumeratorUpdated(newQuorumNumerator)

\* Proposals that move the governance counters, and changes of the quorum.
NextQuorum ==
    \/ nEvents < MaxVoteEvents /\ ProposalCreated
    \/ nEvents < MaxVoteEvents /\ ProposalQueued
    \/ nEvents < MaxVoteEvents /\ ProposalCanceled
    \/ nEvents < MaxVoteEvents /\ QuorumNumeratorUpdated

SpecQuorum == Init /\ [][NextQuorum]_vars

\* ------------------------------------------------ the handlers save by save
\* handleTransfer and handleDelegateChanged with every save() a step of its own, so
\* that the store between two saves of one handler is a state. `handler` holds the
\* position in the handler and its local variables.

\* The holders of a store that point at delegate d.
HoldersOf(store, d) == {id \in DOMAIN store : store[id].delegate = d}

\* Governance.currentTokenHolders counts the holders with a positive balance.
HoldersAgree == governance.currentTokenHolders = Cardinality({id \in DOMAIN tokenHolders :
                                                      tokenHolders[id].tokenBalanceRaw > 0})

\* Every delegate's tokenHoldersRepresentedAmount counts the holders pointing at it.
RepresentedAgree ==
    \A d \in Addresses :
        (IF d \in DOMAIN delegates THEN delegates[d].tokenHoldersRepresentedAmount ELSE 0)
            = Cardinality(HoldersOf(tokenHolders, d))

\* What every step within a handler leaves alone.
WithinHandler ==
    UNCHANGED <<proposals, votes, aborted, event, nEvents, minted, history, attributed,
                votingPower, staking, staked>>

\* Lines 260-267: the parameters and the three loads.
TransferLoad(from, to, value) ==
    /\ handler = Idle
    /\ ~aborted
    /\ handler' = [pc |-> IF from # ZERO_ADDRESS THEN "debit" ELSE "credit",
                   from |-> from, to |-> to, value |-> value,
                   fromHolder |-> getTokenHolder(from),
                   toHolder |-> getTokenHolder(to),
                   governance |-> getGovernance,
                   agreed |-> HoldersAgree]
    /\ logged' = <<>>
    /\ WithinHandler
    /\ UNCHANGED <<tokenHolders, delegates, governance, overdrawn>>

\* Lines 271-299: the debit of fromHolder in memory, and governance.save() when the
\* holder count changes.
TransferDebit ==
    LET fromAfter == DebitHolder(handler.fromHolder, handler.value)
        count == HolderCount(handler.governance.currentTokenHolders,
                             handler.fromHolder.tokenBalanceRaw, fromAfter.tokenBalanceRaw)
        gov == [handler.governance EXCEPT !.currentTokenHolders = count]
        negative == fromAfter.tokenBalanceRaw < BIGINT_ZERO
    IN  /\ handler.pc = "debit"
        /\ governance' = IF gov # handler.governance THEN gov ELSE governance
        /\ logged' = IF negative THEN <<"NegativeBalance">> ELSE logged
        /\ overdrawn' = (overdrawn \/ negative)
        /\ handler' = [handler EXCEPT !.pc = "fromSave", !.fromHolder = fromAfter,
                                      !.governance = gov]
        /\ WithinHandler
        /\ UNCHANGED <<tokenHolders, delegates>>

\* Line 301: fromHolder.save().
TransferSaveFrom ==
    /\ handler.pc = "fromSave"
    /\ tokenHolders' = Save(tokenHolders, handler.fromHolder)
    /\ handler' = [handler EXCEPT !.pc = "credit"]
    /\ WithinHandler
    /\ UNCHANGED <<delegates, governance, logged, overdrawn>>

\* Lines 305-327: the credit of toHolder in memory, and governance.save() when the
\* holder count changes.
TransferCredit ==
    LET toAfter == CreditHolder(handler.toHolder, handler.value)
        count == HolderCount(handler.governance.currentTokenHolders,
                             handler.toHolder.tokenBalanceRaw, toAfter.tokenBalanceRaw)
        gov == [handler.governance EXCEPT !.currentTokenHolders = count]
    IN  /\ handler.pc = "credit"
        /\ governance' = IF gov # handler.governance THEN gov ELSE governance
        /\ handler' = [handler EXCEPT !.pc = "toSave", !.toHolder = toAfter,
                                      !.governance = gov]
        /\ WithinHandler
        /\ UNCHANGED <<tokenHolders, delegates, logged, overdrawn>>

\* Line 328: toHolder.save(), and the handler returns.
TransferSaveTo ==
    /\ handler.pc = "toSave"
    /\ tokenHolders' = Save(tokenHolders, handler.toHolder)
    /\ handler' = Idle
    /\ event' = [kind |-> "Transfer", from |-> handler.from, to |-> handler.to,
                 value |-> handler.value]
    /\ nEvents' = nEvents + 1
    /\ minted' = IF handler.from # ZERO_ADDRESS THEN minted ELSE minted + handler.value
    /\ UNCHANGED <<delegates, proposals, votes, governance, logged, aborted, overdrawn,
                   history, attributed, votingPower, staking, staked>>

\* Lines 213-218: the three loads and the assignment of the new delegate.
DelegateLoad(delegator, fromDelegate, toDelegate) ==
    /\ handler = Idle
    /\ ~aborted
    /\ handler' = [pc |-> "holderSave", delegator |-> delegator,
                   fromDelegate |-> fromDelegate, toDelegate |-> toDelegate,
                   tokenHolder |-> DelegatingHolder(getTokenHolder(delegator),
                                                    getDelegate(toDelegate)),
                   previousDelegate |-> getDelegate(fromDelegate),
                   newDelegate |-> getDelegate(toDelegate),
                   agreed |-> RepresentedAgree]
    /\ logged' = <<>>
    /\ WithinHandler
    /\ UNCHANGED <<tokenHolders, delegates, governance, overdrawn>>

\* Line 219: tokenHolder.save().
DelegateSaveHolder ==
    /\ handler.pc = "holderSave"
    /\ tokenHolders' = Save(tokenHolders, handler.tokenHolder)
    /\ handler' = [handler EXCEPT !.pc = "previousSave"]
    /\ WithinHandler
    /\ UNCHANGED <<delegates, governance, logged, overdrawn>>

\* Lines 221-223: previousDelegate loses a holder and is saved.
DelegateSavePrevious ==
    /\ handler.pc = "previousSave"
    /\ delegates' = Save(delegates, LeftDelegate(handler.previousDelegate))
    /\ handler' = [handler EXCEPT !.pc = "newSave"]
    /\ WithinHandler
    /\ UNCHANGED <<tokenHolders, governance, logged, overdrawn>>

\* Lines 225-227: newDelegate gains a holder and is saved, and the handler returns.
DelegateSaveNew ==
    /\ handler.pc = "newSave"
    /\ delegates' = Save(delegates, JoinedDelegate(handler.newDelegate))
    /\ handler' = Idle
    /\ event' = [kind |-> "DelegateChanged", delegator |-> handler.delegator,
                 fromDelegate |-> handler.fromDelegate, toDelegate |-> handler.toDelegate]
    /\ nEvents' = nEvents + 1
    /\ UNCHANGED <<tokenHolders, proposals, votes, governance, logged, aborted, minted,
                   overdrawn, history, attributed, votingPower, staking, staked>>

NextSaves ==
    \/ nEvents < MaxTransfers /\ \E from \in Addresses, to \in Addresses,
                                    value \in TransferValues : TransferLoad(from, to, value)
    \/ TransferDebit
    \/ TransferSaveFrom
    \/ TransferCredit
    \/ TransferSaveTo
    \/ nEvents < MaxTransfers /\ \E delegator \in Participants, fromDelegate \in Addresses,
                                    toDelegate \in Addresses :
                                     DelegateLoad(delegator, fromDelegate, toDelegate)
    \/ DelegateSaveHolder
    \/ DelegateSavePrevious
    \/ DelegateSaveNew

SpecSaves == Init /\ [][NextSaves]_vars

\* ------------------------------------------- masterchef/reward.ts handlers

\* handleReward(event, pid, amount) of common/handlers/handleReward, as far as the
\* staking handlers are concerned: it is called with a pool and a signed amount.
handleReward(pid, amount) ==
    staking' = [staking EXCEPT ![pid].delta = @ + amount,
                               ![pid].calls = @ + 1,
                               ![pid].last = amount]

\* The bookkeeping of a staking event: nothing of the governance store moves.
HandledStake(ev) ==
    /\ handler = Idle
    /\ ~aborted
    /\ event' = ev
    /\ nEvents' = nEvents + 1
    /\ UNCHANGED <<tokenHolders, delegates, proposals, votes, governance, logged, aborted,
                   minted, overdrawn, history, attributed, votingPower, handler>>

\* The amount handleDeposit passes on.
DepositDelta(amount) == amount

handleDeposit(pid, amount) ==
    /\ handleReward(pid, DepositDelta(amount))
    /\ staked' = [staked EXCEPT ![pid].events = @ + 1, ![pid].deposited = @ + amount]
    /\ HandledStake([kind |-> "Deposit", pid |-> pid, amount |-> amount])

\* The amount handleWithdraw passes on.
WithdrawDelta(amount) == amount * BIGINT_NEG_ONE

handleWithdraw(pid, amount) ==
    /\ handleReward(pid, WithdrawDelta(amount))
    /\ staked' = [staked EXCEPT ![pid].events = @ + 1, ![pid].withdrawn = @ + amount]
    /\ HandledStake([kind |-> "Withdraw", pid |-> pid, amount |-> amount])

\* An emergency withdrawal that is passed on as a deposit.
EmergencyWithdrawDeltaUnsigned(amount) == amount

\* The amount handleEmergencyWithdraw passes on.
EmergencyWithdrawDelta(amount) == amount * BIGINT_NEG_ONE

handleEmergencyWithdraw(pid, amount) ==
    /\ handleReward(pid, EmergencyWithdrawDelta(amount))
    /\ staked' = [staked EXCEPT ![pid].events = @ + 1, ![pid].emergency = @ + amount]
    /\ HandledStake([kind |-> "EmergencyWithdraw", pid |-> pid, amount |-> amount])

Deposit == \E pid \in PoolIds, amount \in StakeAmounts : handleDeposit(pid, amount)

Withdraw == \E pid \in PoolIds, amount \in StakeAmounts : handleWithdraw(pid, amount)

EmergencyWithdraw ==
    \E pid \in PoolIds, amount \in StakeAmounts : handleEmergencyWithdraw(pid, amount)

NextStaking ==
    \/ nEvents < MaxEvents /\ Deposit
    \/ nEvents < MaxEvents /\ Withdraw
    \/ nEvents < MaxEvents /\ EmergencyWithdraw

SpecStaking == Init /\ [][NextStaking]_vars

\* ------------------------------------------------------------------ claims

RECURSIVE SumBalances(_, _)
\* The sum of tokenBalanceRaw over the holders `ids` of a TokenHolder store.
SumBalances(store, ids) ==
    IF ids = {} THEN 0
    ELSE LET id == CHOOSE x \in ids : TRUE
         IN  store[id].tokenBalanceRaw + SumBalances(store, ids \ {id})

\* The holders of a store with a strictly positive balance.
PositiveHolders(store) == {id \in DOMAIN store : store[id].tokenBalanceRaw > 0}

\* The last step handled the event the primed state records.
EventStep(kind) == nEvents' = nEvents + 1 /\ event'.kind = kind

\* C1: as long as no Transfer has left its sender with a negative balance, the
\* balances of all TokenHolder entities add up to the sum of the values of the
\* Transfer events from the zero address.
C1_SupplyIsMinted ==
    ~overdrawn => SumBalances(tokenHolders, DOMAIN tokenHolders) = minted

\* C2: after every Transfer, Governance.currentTokenHolders is the number of
\* TokenHolder entities with a strictly positive tokenBalanceRaw.
C2_HoldersCounted ==
    governance.currentTokenHolders = Cardinality(PositiveHolders(tokenHolders))

\* A Transfer overdraws its sender: the sender is not the zero address and holds
\* less than the value.
OverdraftStep ==
    /\ EventStep("Transfer")
    /\ event'.from # ZERO_ADDRESS
    /\ getTokenHolder(event'.from).tokenBalanceRaw < event'.value

\* What C7 says of an overdraft: the sender ends at b - v, the fault is logged, the
\* recipient is credited with v and the handler does not trap.
OverdraftEffect ==
    /\ tokenHolders'[event'.from].tokenBalanceRaw =
           getTokenHolder(event'.from).tokenBalanceRaw - event'.value
    /\ logged' = <<"NegativeBalance">>
    /\ tokenHolders'[event'.to].tokenBalanceRaw =
           getTokenHolder(event'.to).tokenBalanceRaw + event'.value
    /\ ~aborted'

\* C7 as stated: every Transfer of v from a non-zero address X with balance b < v
\* leaves X at b - v, logs the fault, credits the recipient with v and completes.
C7_OverdraftAnyRecipient == [][OverdraftStep => OverdraftEffect]_vars

\* C7 as amended: every Transfer of v from a non-zero address X with balance b < v
\* to a recipient other than X leaves X at b - v, logs the fault, credits the
\* recipient with v and completes.
C7_OverdraftOtherRecipient ==
    [][(OverdraftStep /\ event'.to # event'.from) => OverdraftEffect]_vars

\* C7's case: the last Transfer overdrew its sender, who is not the recipient; the
\* fault is logged, the sender is negative, the recipient was credited.
C7_Witness ==
    /\ event.kind = "Transfer"
    /\ event.from # ZERO_ADDRESS
    /\ event.to # event.from
    /\ event.value > 0
    /\ logged = <<"NegativeBalance">>
    /\ tokenHolders[event.from].tokenBalanceRaw < 0
    /\ tokenHolders[event.to].tokenBalanceRaw >= event.value
    /\ ~aborted

\* The delegates of a store with strictly positive delegated votes.
PositiveDelegates(store) == {id \in DOMAIN store : store[id].delegatedVotesRaw > 0}

\* C3: after every DelegateVotesChanged, Governance.currentDelegates is the number
\* of Delegate entities with strictly positive delegatedVotesRaw; the counter goes
\* down only when the delegate's votes go from positive to zero and up only when
\* they go from zero to positive.
C3_DelegatesCounted ==
    [][EventStep("DelegateVotesChanged") =>
          LET before == getDelegate(event'.delegate).delegatedVotesRaw
              after == delegates'[event'.delegate].delegatedVotesRaw
          IN  /\ governance'.currentDelegates = Cardinality(PositiveDelegates(delegates'))
              /\ governance'.currentDelegates < governance.currentDelegates
                     => (before > 0 /\ after = 0)
              /\ governance'.currentDelegates > governance.currentDelegates
                     => (before = 0 /\ after > 0)]_vars

RECURSIVE SumAttributed(_)
\* What the events of the proposals `ids` added to the two lifecycle counters.
SumAttributed(ids) ==
    IF ids = {} THEN [queued |-> 0, executed |-> 0]
    ELSE LET p == CHOOSE x \in ids : TRUE
             rest == SumAttributed(ids \ {p})
         IN  [queued |-> attributed[p].queued + rest.queued,
              executed |-> attributed[p].executed + rest.executed]

\* Created, then queued, then executed, and nothing else.
FullLife == <<"ProposalCreated", "ProposalQueued", "ProposalExecuted">>

\* C4: a proposal whose events are ProposalCreated, ProposalQueued, ProposalExecuted,
\* in that order, whatever happened to other proposals in between, is Executed with
\* no executionETA, has added nothing to proposalsQueued and one to
\* proposalsExecuted; the two counters are the sums of what the proposals added.
C4_CreatedQueuedExecuted ==
    /\ governance.proposalsQueued = SumAttributed(ProposalIds).queued
    /\ governance.proposalsExecuted = SumAttributed(ProposalIds).executed
    /\ \A p \in ProposalIds :
           history[p] = FullLife =>
               /\ p \in DOMAIN proposals
               /\ proposals[p].state = PROPOSAL_STATE_EXECUTED
               /\ proposals[p].executionETA = NULL
               /\ attributed[p].queued = 0
               /\ attributed[p].executed = 1

\* C4's case: a proposal went through its three events while the other proposal had
\* events of its own, one of them before the execution.
C4_Witness ==
    \E p \in ProposalIds, q \in ProposalIds :
        /\ p # q
        /\ history[p] = FullLife
        /\ history[q] # <<>>
        /\ q \in DOMAIN proposals
        /\ proposals[p].executionBlock > proposals[q].creationBlock
        /\ proposals[q].creationBlock > proposals[p].creationBlock
        /\ proposals[p].state = PROPOSAL_STATE_EXECUTED
        /\ governance.proposalsExecuted = 1

\* The three tallies of a proposal.
Tallies(proposal) == <<proposal.againstVotes, proposal.forVotes, proposal.abstainVotes>>

\* The Vote entity of the event the primed state records is in the store, under
\* the id voter-proposalId.
VoteSaved ==
    LET id == VoteId(event'.voter, event'.proposalId)
    IN  /\ id \in DOMAIN votes'
        /\ votes'[id].id = id
        /\ votes'[id].voter = event'.voter
        /\ votes'[id].proposal = event'.proposalId
        /\ votes'[id].weight = event'.weight

\* C5: a VoteCast with support code 0, 1 or 2 adds one to againstVotes, forVotes or
\* abstainVotes of the proposal and leaves the other two alone, saves the Vote under
\* voter-proposalId, and makes a Pending proposal Active and leaves any other state.
C5_VoteCounted ==
    [][(EventStep("VoteCast") /\ event'.support \in {0, 1, 2}) =>
          LET old == getProposal(event'.proposalId)
              new == proposals'[event'.proposalId]
              c == event'.support
          IN  /\ Tallies(new) =
                     <<old.againstVotes + (IF c = 0 THEN 1 ELSE 0),
                       old.forVotes + (IF c = 1 THEN 1 ELSE 0),
                       old.abstainVotes + (IF c = 2 THEN 1 ELSE 0)>>
              /\ VoteSaved
              /\ new.state = IF old.state = PROPOSAL_STATE_PENDING
                             THEN PROPOSAL_STATE_ACTIVE
                             ELSE old.state]_vars

\* C5's case: the first vote on a proposal created before its start block, in
\* favour: the proposal is Active with one vote for it, and the Vote is saved.
C5_Witness ==
    /\ event.kind = "VoteCast"
    /\ event.support = 1
    /\ history[event.proposalId] = <<"ProposalCreated", "VoteCast">>
    /\ proposals[event.proposalId].creationBlock < proposals[event.proposalId].startBlock
    /\ proposals[event.proposalId].state = PROPOSAL_STATE_ACTIVE
    /\ Tallies(proposals[event.proposalId]) = <<0, 1, 0>>
    /\ VoteId(event.voter, event.proposalId) \in DOMAIN votes

\* C6: a VoteCast with a support code other than 0, 1 and 2 leaves the three
\* tallies of the proposal as they were, logs no error, does not trap, and saves
\* the Vote under voter-proposalId.
C6_UnknownSupport ==
    [][(EventStep("VoteCast") /\ event'.support \notin {0, 1, 2}) =>
          /\ Tallies(proposals'[event'.proposalId]) =
                 Tallies(getProposal(event'.proposalId))
          /\ logged' = <<>>
          /\ ~aborted'
          /\ VoteSaved]_vars

\* C6's case: a vote with support code 7 on a proposal that has a vote in favour:
\* the tallies still count that one vote only, and the Vote with code 7 is saved.
C6_Witness ==
    /\ event.kind = "VoteCast"
    /\ event.support = 7
    /\ ~aborted
    /\ VoteId(event.voter, event.proposalId) \in DOMAIN votes
    /\ votes[VoteId(event.voter, event.proposalId)].choice = "7"
    /\ Tallies(proposals[event.proposalId]) = <<0, 1, 0>>

\* C8: a ProposalCreated whose proposer has no Delegate entity logs the fault, does
\* not trap, saves the proposal with its fields and state and no proposer, and adds
\* one to Governance.proposals.
C8_MissingProposer ==
    [][(EventStep("ProposalCreated") /\ event'.proposer \notin DOMAIN delegates) =>
          /\ logged' # <<>>
          /\ ~aborted'
          /\ event'.proposalId \in DOMAIN proposals'
          /\ proposals'[event'.proposalId].proposer = NULL
          /\ proposals'[event'.proposalId].startBlock = event'.startBlock
          /\ proposals'[event'.proposalId].state
                 \in {PROPOSAL_STATE_ACTIVE, PROPOSAL_STATE_PENDING}
          /\ governance'.proposals = governance.proposals + 1]_vars

\* C9: a Vote entity, once in the store, stays in it with every field as it is.
C9_VoteImmutable ==
    [][\A id \in DOMAIN votes : id \in DOMAIN votes' /\ votes'[id] = votes[id]]_vars

\* The voters with a Vote of the given choice on proposal p.
VotersWith(p, choice) ==
    {v \in Participants :
        /\ VoteId(v, p) \in DOMAIN votes
        /\ votes[VoteId(v, p)].choice = choice}

\* C10: the three tallies of every proposal are the numbers of distinct voters with
\* a Vote of that choice on it.
C10_TalliesCountVoters ==
    \A p \in DOMAIN proposals :
        Tallies(proposals[p]) =
            <<Cardinality(VotersWith(p, "AGAINST")),
              Cardinality(VotersWith(p, "FOR")),
              Cardinality(VotersWith(p, "ABSTAIN"))>>

\* C11: every VoteCast leaves the voter's Delegate with numberVotes one above the
\* value the store held for that voter before the event (0 if it held none).
C11_VotesNumbered ==
    [][EventStep("VoteCast") =>
          delegates'[event'.voter].numberVotes = getDelegate(event'.voter).numberVotes + 1]_vars

Represented(store, id) ==
    IF id \in DOMAIN store THEN store[id].tokenHoldersRepresentedAmount ELSE 0

\* C16: every DelegateChanged points the delegator at toDelegate and moves one
\* represented holder from fromDelegate to toDelegate: each delegate's
\* tokenHoldersRepresentedAmount changes by what it gains less what it loses, which
\* is nothing for a delegate that is both, so the sum over all delegates stays.
C16_RepresentationMoves ==
    [][EventStep("DelegateChanged") =>
          /\ tokenHolders'[event'.delegator].delegate = event'.toDelegate
          /\ \A d \in Addresses :
                 Represented(delegates', d) =
                     Represented(delegates, d)
                         - (IF d = event'.fromDelegate THEN 1 ELSE 0)
                         + (IF d = event'.toDelegate THEN 1 ELSE 0)]_vars

RECURSIVE SumDelegatedVotes(_, _)
\* The sum of delegatedVotesRaw over the delegates `ids` of a Delegate store.
SumDelegatedVotes(store, ids) ==
    IF ids = {} THEN 0
    ELSE LET id == CHOOSE x \in ids : TRUE
         IN  store[id].delegatedVotesRaw + SumDelegatedVotes(store, ids \ {id})

C14_NoStateCheck ==
    [][/\ EventStep("ProposalCanceled") =>
              /\ proposals'[event'.proposalId].state = PROPOSAL_STATE_CANCELED
              /\ governance'.proposalsCanceled = governance.proposalsCanceled + 1
       /\ EventStep("ProposalQueued") =>
              /\ proposals'[event'.proposalId].state = PROPOSAL_STATE_QUEUED
              /\ governance'.proposalsQueued = governance.proposalsQueued + 1
       /\ EventStep("ProposalExecuted") =>
              /\ proposals'[event'.proposalId].state = PROPOSAL_STATE_EXECUTED
              /\ proposals'[event'.proposalId].executionETA = NULL
              /\ governance'.proposalsQueued = governance.proposalsQueued - 1
              /\ governance'.proposalsExecuted = governance.proposalsExecuted + 1]_vars

\* C14's case: a proposal that was created and canceled, never queued, is executed:
\* it is Executed and proposalsQueued has gone below zero.
C14_Witness ==
    \E p \in ProposalIds :
        /\ history[p] = <<"ProposalCreated", "ProposalCanceled", "ProposalExecuted">>
        /\ event.kind = "ProposalExecuted"
        /\ event.proposalId = p
        /\ proposals[p].state = PROPOSAL_STATE_EXECUTED
        /\ proposals[p].cancellationBlock # NULL
        /\ governance.proposalsQueued = -1
        /\ governance.proposalsExecuted = 1

\* The proposals of the store that are in state Queued.
QueuedProposals == {p \in DOMAIN proposals : proposals[p].state = PROPOSAL_STATE_QUEUED}

\* C15: Governance.proposalsQueued is never negative and is the number of Proposal
\* entities in state Queued.
C15_QueuedCounted ==
    /\ governance.proposalsQueued >= 0
    /\ governance.proposalsQueued = Cardinality(QueuedProposals)

\* C18: a ProposalCreated leaves the proposal Active when the block of the event is
\* at or past startBlock and Pending when it is before, and adds one to
\* Governance.proposals.
C18_CreatedState ==
    [][EventStep("ProposalCreated") =>
          /\ proposals'[event'.proposalId].state =
                 IF BlockNumber >= event'.startBlock
                 THEN PROPOSAL_STATE_ACTIVE
                 ELSE PROPOSAL_STATE_PENDING
          /\ governance'.proposals = governance.proposals + 1]_vars

\* C18's case: a proposal created in the very block it starts in is Active, while
\* an earlier one, created before its start block, is Pending.
C18_Witness ==
    \E p \in ProposalIds, q \in ProposalIds :
        /\ event.kind = "ProposalCreated"
        /\ event.proposalId = p
        /\ proposals[p].creationBlock = proposals[p].startBlock
        /\ proposals[p].state = PROPOSAL_STATE_ACTIVE
        /\ history[q] = <<"ProposalCreated">>
        /\ proposals[q].creationBlock < proposals[q].startBlock
        /\ proposals[q].state = PROPOSAL_STATE_PENDING
        /\ governance.proposals = 2

\* C20: handleReward has been called once per staking event, with the event's pool;
\* the last call carried the amount of a Deposit as it is and the amount of a
\* Withdraw or an EmergencyWithdraw negated; and per pool the deltas passed add up
\* to what was deposited less what was withdrawn and emergency-withdrawn.
C20_SignedDeltas ==
    /\ \A pid \in PoolIds :
           /\ staking[pid].calls = staked[pid].events
           /\ staking[pid].delta =
                  staked[pid].deposited - staked[pid].withdrawn - staked[pid].emergency
    /\ event.kind = "Deposit" => staking[event.pid].last = event.amount
    /\ event.kind \in {"Withdraw", "EmergencyWithdraw"} =>
           staking[event.pid].last = 0 - event.amount

\* C20's case: a pool has had a deposit, a withdrawal and last an emergency
\* withdrawal, which took its deltas below zero.
C20_Witness ==
    /\ event.kind = "EmergencyWithdraw"
    /\ staked[event.pid].events = 3
    /\ staked[event.pid].deposited > 0
    /\ staked[event.pid].withdrawn > 0
    /\ staking[event.pid].calls = 3
    /\ staking[event.pid].delta < 0
    /\ staking[event.pid].last < 0

\* C19: the store between two saves of one handler never shows a derived counter
\* that disagrees with the entities it counts, when they agreed as the handler
\* began: within handleTransfer Governance.currentTokenHolders is the number of
\* holders with a positive balance, and within handleDelegateChanged every
\* delegate's tokenHoldersRepresentedAmount is the number of holders pointing at it.
C19_SavesAppearAtomic ==
    /\ (handler.pc \in {"debit", "fromSave", "credit", "toSave"} /\ handler.agreed)
           => governance.currentTokenHolders = Cardinality(PositiveHolders(tokenHolders))
    /\ (handler.pc \in {"holderSave", "previousSave", "newSave"} /\ handler.agreed)
           => \A d \in Addresses :
                  Represented(delegates, d) = Cardinality(HoldersOf(tokenHolders, d))

=============================================================================
